---------------------------- MODULE Spec2Model ----------------------------
(***************************************************************************)
(* Metric sink dispatch of veneur: the Datadog metric sink                 *)
(* (sinks/datadog/datadog.go) and the SignalFx sink exercised by           *)
(* signalfx_test.go.                                                       *)
(*                                                                         *)
(* Strings that the code parses (names, tags, hostnames, dimension keys)   *)
(* are sequences of one-character strings, so that strings.HasPrefix,      *)
(* slicing (tag[5:]) and strings.SplitN are computed, not assumed.         *)
(* Enumerations (metric types, client kinds, program positions) are TLA+   *)
(* strings.                                                                *)
(***************************************************************************)
EXTENDS Integers, Sequences, FiniteSets, TLC

(***************************************************************************)
(* Bounds of the model.                                                    *)
(***************************************************************************)
\* longest record list handed to one DatadogMetricSink.Flush call
MaxMetrics == 3
\* largest flushMaxPerBody a Datadog sink is constructed with
MaxPerBody == 2
\* longest record list and largest flushMaxPerBody the chunk arithmetic of
\* Flush is evaluated for on its own
MaxChunkRecords == 8
MaxChunkBody == 4

(***************************************************************************)
(* Strings.                                                                *)
(***************************************************************************)
\* strings.HasPrefix(s, prefix)
HasPrefix(s, prefix) ==
    /\ Len(s) >= Len(prefix)
    /\ SubSeq(s, 1, Len(prefix)) = prefix

\* s[n:] of Go, for n <= len(s)
Drop(s, n) == SubSeq(s, n + 1, Len(s))

\* Go's integer division truncates toward zero (b > 0 here; b = 0 panics
\* and is guarded by the callers).
GoDiv(a, b) == IF a >= 0 THEN a \div b ELSE -((-a) \div b)

RECURSIVE Gcd(_, _)
Gcd(a, b) == IF b = 0 THEN a ELSE Gcd(b, a % b)

\* A float64 value that is the quotient of two small integers, kept exactly
\* as a reduced fraction (d > 0).
Rat(n, d) ==
    LET a == IF n < 0 THEN -n ELSE n
        g == Gcd(a, d)
    IN  [n |-> n \div g, d |-> d \div g]

(***************************************************************************)
(* samplers.InterMetric and its metric types.  The Datadog formatter       *)
(* recognises CounterMetric and GaugeMetric only.                          *)
(***************************************************************************)
CounterMetric == "counter"
GaugeMetric == "gauge"
StatusMetric == "status"

HostPrefix == <<"h", "o", "s", "t", ":">>
DevicePrefix == <<"d", "e", "v", "i", "c", "e", ":">>

TagHostH2 == HostPrefix \o <<"h", "2">>
TagDeviceSda == DevicePrefix \o <<"s", "d", "a">>
TagEnvProd == <<"e", "n", "v", ":", "p">>
TagFlag == <<"n", "o", "v">>
\* a host tag with nothing behind the prefix
TagHostNone == HostPrefix

\* The records a Datadog flush is fed with: a counter, a gauge carrying
\* both magic tags, and a status record (a type the formatter does not know).
DDInputs ==
    { [Name |-> <<"c">>, Timestamp |-> 1, Value |-> 10, Type |-> CounterMetric,
       Tags |-> <<TagEnvProd, TagHostNone>>, Sinks |-> {}],
      [Name |-> <<"g">>, Timestamp |-> 2, Value |-> 7, Type |-> GaugeMetric,
       Tags |-> <<TagHostH2, TagFlag, TagDeviceSda>>, Sinks |-> {}],
      [Name |-> <<"s">>, Timestamp |-> 3, Value |-> 2, Type |-> StatusMetric,
       Tags |-> <<TagEnvProd>>, Sinks |-> {}] }

RECURSIVE SeqsUpTo(_, _)
SeqsUpTo(S, n) ==
    IF n = 0 THEN {<<>>}
    ELSE LET shorter == SeqsUpTo(S, n - 1)
         IN  shorter \cup {Append(s, x) : s \in {t \in shorter : Len(t) = n - 1}, x \in S}

(***************************************************************************)
(* State.                                                                  *)
(***************************************************************************)
VARIABLES
    dd,          \* the DatadogMetricSink: interval, flushMaxPerBody, hostname, tags
    ctx,         \* the context passed to Flush: "live" or "done"
    pc,          \* position of the Flush call
    interMetrics,\* Flush's argument
    metrics,     \* Flush's local: the finalized DDMetrics
    workers,     \* Flush's local
    chunkSize,   \* Flush's local
    i,           \* Flush's loop counter
    parts,       \* the flushPart goroutines started so far
    wg,          \* the sync.WaitGroup counter
    posts,       \* the bodies handed to postHelper, in call order
    ret,         \* what Flush returned: "none", "nil", "error"
    sfx,         \* the SignalFxSink: its configuration and its excluded tags
    samples,     \* FlushOtherSamples' argument
    batches,     \* the chunk submissions a SignalFx flush has started
    received,    \* per destination client, what the FakeSink has recorded
    derived      \* testDerivedSink.samples

ddVars == <<dd, metrics, workers, chunkSize, i, parts, wg, posts>>
sfxVars == <<sfx, samples, batches, received, derived>>
vars == <<dd, ctx, pc, interMetrics, metrics, workers, chunkSize, i, parts, wg,
          posts, ret, sfx, samples, batches, received, derived>>

(***************************************************************************)
(* DatadogMetricSink.finalizeMetrics                                       *)
(***************************************************************************)
\* The zero value of DDMetric: what make([]DDMetric, n) fills the slice with.
ZeroDDMetric ==
    [Name |-> <<>>, Value |-> <<0, Rat(0, 1)>>, Tags |-> <<>>, MetricType |-> "",
     Hostname |-> <<>>, DeviceName |-> <<>>, Interval |-> 0]

\* Go slices share their backing array.  The heap is the sequence of the
\* arrays of strings live during finalizeMetrics, each as long as its
\* capacity; a slice is an array of the heap and a length.  Array 1 is the
\* backing array of dd.tags: its len(dd.tags) elements and the spare
\* capacity behind them.
NilSlice == [arr |-> 0, len |-> 0]
NewHeap(sink) == << sink.tags \o sink.spare >>
Elems(h, sl) == IF sl.arr = 0 THEN <<>> ELSE SubSeq(h[sl.arr], 1, sl.len)
Cap(h, sl) == IF sl.arr = 0 THEN 0 ELSE Len(h[sl.arr])

\* The tags of the wire record as dd.tags itself, sharing its array.
CopyTags_Alias(h, sink) ==
    [heap |-> h, tags |-> [arr |-> 1, len |-> Len(sink.tags)]]

\* tags := make([]string, len(dd.tags)); copy(tags, dd.tags)
CopyTags(h, sink) ==
    [heap |-> Append(h, sink.tags),
     tags |-> [arr |-> Len(h) + 1, len |-> Len(sink.tags)]]

\* append(sl, tag): in place when the array has room behind the slice,
\* else into a new array (of twice the capacity) that receives a copy.
AppendTag(h, sl, tag) ==
    IF sl.len < Cap(h, sl)
    THEN [heap |-> [h EXCEPT ![sl.arr][sl.len + 1] = tag],
          tags |-> [sl EXCEPT !.len = @ + 1]]
    ELSE LET newcap == IF Cap(h, sl) = 0 THEN 1 ELSE 2 * Cap(h, sl)
             grown == Elems(h, sl) \o <<tag>>
                       \o [j \in 1..(newcap - sl.len - 1) |-> <<>>]
         IN  [heap |-> Append(h, grown),
              tags |-> [arr |-> Len(h) + 1, len |-> sl.len + 1]]

\* The loop over m.Tags that looks for the magic tags host: and device:.
\* st is the heap and the ddMetric under construction.
RECURSIVE MagicTags(_, _)
MagicTags(st, tags) ==
    IF tags = <<>> THEN st
    ELSE LET tag == Head(tags)
             next ==
                 IF HasPrefix(tag, HostPrefix)
                 THEN [st EXCEPT !.m.Hostname = Drop(tag, 5)]
                 ELSE IF HasPrefix(tag, DevicePrefix)
                 THEN [st EXCEPT !.m.DeviceName = Drop(tag, 7)]
                 ELSE LET app == AppendTag(st.heap, st.m.Tags, tag)
                      IN  [heap |-> app.heap,
                           m |-> [st.m EXCEPT !.Tags = app.tags]]
         IN  MagicTags(next, Tail(tags))

\* The value of a counter left as it is, not turned into a rate.
WireValue_Raw(sink, m) == Rat(m.Value, 1)

\* value := m.Value, and for a counter value = m.Value / dd.interval
WireValue(sink, m) ==
    IF m.Type = CounterMetric
    THEN Rat(m.Value, sink.interval)
    ELSE Rat(m.Value, 1)

\* One iteration of the loop, from heap h: the heap it leaves and the
\* value of the slot ddMetrics[i].  The default branch of the switch
\* continues without assigning the slot, which keeps its zero value.
FinalizeOne(h, sink, m) ==
    LET copied == CopyTags(h, sink)
        metricType == IF m.Type = CounterMetric THEN "rate" ELSE "gauge"
        value == WireValue(sink, m)
        ddMetric == [Name |-> m.Name,
                     Value |-> <<m.Timestamp, value>>,
                     Tags |-> copied.tags,
                     MetricType |-> metricType,
                     Hostname |-> <<>>,
                     DeviceName |-> <<>>,
                     Interval |-> sink.interval]
        tagged == MagicTags([heap |-> copied.heap, m |-> ddMetric], m.Tags)
    IN  IF m.Type \notin {CounterMetric, GaugeMetric}
        THEN [heap |-> copied.heap, m |-> [ZeroDDMetric EXCEPT !.Tags = NilSlice]]
        ELSE IF tagged.m.Hostname = <<>>
        THEN [tagged EXCEPT !.m.Hostname = sink.hostname]
        ELSE tagged

\* The loop of finalizeMetrics over the records, in order.
RECURSIVE FinalizeLoop(_, _, _)
FinalizeLoop(st, sink, ms) ==
    IF ms = <<>> THEN st
    ELSE LET one == FinalizeOne(st.heap, sink, Head(ms))
         IN  FinalizeLoop([heap |-> one.heap, out |-> Append(st.out, one.m)],
                          sink, Tail(ms))

\* The returned ddMetrics, len(metrics) slots, each with the tags its slice
\* shows once the loop is over, which is when they are read.
finalizeMetrics(sink, ms) ==
    LET r == FinalizeLoop([heap |-> NewHeap(sink), out |-> <<>>], sink, ms)
    IN  [k \in 1..Len(ms) |-> [r.out[k] EXCEPT !.Tags = Elems(r.heap, @)]]

\* The sink once finalizeMetrics has returned: dd.tags and the spare
\* capacity of its array as the loop left them.
SinkAfter(sink, ms) ==
    LET r == FinalizeLoop([heap |-> NewHeap(sink), out |-> <<>>], sink, ms)
        n == Len(sink.tags)
    IN  [sink EXCEPT !.tags = SubSeq(r.heap[1], 1, n),
                     !.spare = SubSeq(r.heap[1], n + 1, Len(r.heap[1]))]

(***************************************************************************)
(* DatadogMetricSink.Flush.  The calls to the logger, the trace span and   *)
(* the statsd client are instrumentation and are left out.                 *)
(***************************************************************************)
\* The worker count taken as len(metrics) / dd.flushMaxPerBody + 1.
Workers_Floor(n, maxPerBody) == GoDiv(n, maxPerBody) + 1

\* workers := ((len(metrics) - 1) / dd.flushMaxPerBody) + 1
Workers(n, maxPerBody) == GoDiv(n - 1, maxPerBody) + 1

\* chunkSize := ((len(metrics) - 1) / workers) + 1, for workers # 0
ChunkSize(n, w) == GoDiv(n - 1, w) + 1

\* Chunk without the trim to chunkSize.
Chunk_Untrimmed(ms, k, w, cs) == Drop(ms, k * cs)

\* chunk := metrics[i*chunkSize:], trimmed to chunk[:chunkSize] unless last.
\* lo is the 0-based offset of the chunk in metrics.
Chunk(ms, k, w, cs) ==
    LET rest == Drop(ms, k * cs)
    IN  IF k < w - 1 THEN SubSeq(rest, 1, cs) ELSE rest

\* Whether the slice expressions of iteration k are in range.
SliceOK(ms, k, w, cs) ==
    /\ k * cs >= 0
    /\ k * cs <= Len(ms)
    /\ (k < w - 1) => (cs >= 0 /\ cs <= Len(ms) - k * cs)

DDSinks ==
    { [interval |-> 10, flushMaxPerBody |-> b, hostname |-> <<"h", "1">>,
       tags |-> <<<<"c", "t">>>>, spare |-> << <<>> >>] : b \in 1..MaxPerBody }

DDInit ==
    /\ dd \in DDSinks
    /\ ctx \in {"live", "done"}
    /\ pc = "idle"
    /\ interMetrics = <<>>
    /\ metrics = <<>>
    /\ workers = 0
    /\ chunkSize = 0
    /\ i = 0
    /\ parts = <<>>
    /\ wg = 0
    /\ posts = <<>>
    /\ ret = "none"
    /\ sfx = <<>>
    /\ samples = <<>>
    /\ batches = {}
    /\ received = <<>>
    /\ derived = <<>>

\* Flush up to the loop: finalizeMetrics, then the two divisions.  The
\* second one divides by workers, which is 0 when len(metrics) = 0 and
\* flushMaxPerBody = 1: an integer divide by zero panic.
DDFlush ==
    /\ pc = "idle"
    /\ \E ms \in SeqsUpTo(DDInputs, MaxMetrics) :
         LET fin == finalizeMetrics(dd, ms)
             w == Workers(Len(fin), dd.flushMaxPerBody)
         IN  /\ interMetrics' = ms
             /\ metrics' = fin
             /\ dd' = SinkAfter(dd, ms)
             /\ workers' = w
             /\ IF w = 0
                THEN /\ pc' = "panic"
                     /\ UNCHANGED chunkSize
                ELSE /\ pc' = "loop"
                     /\ chunkSize' = ChunkSize(Len(fin), w)
    /\ UNCHANGED <<ctx, i, parts, wg, posts, ret>>
    /\ UNCHANGED sfxVars

\* One iteration of the loop: slice the chunk, wg.Add(1), go flushPart.
DDSpawn ==
    /\ pc = "loop"
    /\ i < workers
    /\ IF SliceOK(metrics, i, workers, chunkSize)
       THEN /\ parts' = Append(parts, [lo |-> i * chunkSize,
                                       chunk |-> Chunk(metrics, i, workers, chunkSize),
                                       st |-> "started"])
            /\ wg' = wg + 1
            /\ i' = i + 1
            /\ pc' = pc
       ELSE /\ pc' = "panic"
            /\ UNCHANGED <<parts, wg, i>>
    /\ UNCHANGED <<dd, ctx, interMetrics, metrics, workers, chunkSize, posts, ret>>
    /\ UNCHANGED sfxVars

\* The loop ends and Flush reaches wg.Wait().
DDLoopEnd ==
    /\ pc = "loop"
    /\ i >= workers
    /\ pc' = "wait"
    /\ UNCHANGED <<dd, ctx, interMetrics, metrics, workers, chunkSize, i, parts, wg,
                   posts, ret>>
    /\ UNCHANGED sfxVars

\* flushPart calls postHelper with its slice as the "series" of the body.
DDPost(k) ==
    /\ parts[k].st = "started"
    /\ parts' = [parts EXCEPT ![k].st = "posting"]
    /\ posts' = Append(posts, [lo |-> parts[k].lo, series |-> parts[k].chunk])
    /\ UNCHANGED <<dd, ctx, pc, interMetrics, metrics, workers, chunkSize, i, wg, ret>>
    /\ UNCHANGED sfxVars

\* postHelper returns (nil or an error, which flushPart discards) and the
\* deferred wg.Done() runs.
DDPostReturn(k) ==
    /\ parts[k].st = "posting"
    /\ \E res \in {"ok", "failed"} : parts' = [parts EXCEPT ![k].st = res]
    /\ wg' = wg - 1
    /\ UNCHANGED <<dd, ctx, pc, interMetrics, metrics, workers, chunkSize, i, posts, ret>>
    /\ UNCHANGED sfxVars

\* wg.Wait() returns once the counter is zero; Flush then returns nil.
DDReturn ==
    /\ pc = "wait"
    /\ wg = 0
    /\ pc' = "done"
    /\ ret' = "nil"
    /\ UNCHANGED <<dd, ctx, interMetrics, metrics, workers, chunkSize, i, parts, wg, posts>>
    /\ UNCHANGED sfxVars

\* The caller's context is canceled or passes its deadline while Flush runs.
CtxDone ==
    /\ ctx = "live"
    /\ pc \in {"loop", "wait"}
    /\ ctx' = "done"
    /\ UNCHANGED <<dd, pc, interMetrics, metrics, workers, chunkSize, i, parts, wg,
                   posts, ret>>
    /\ UNCHANGED sfxVars

DDNext ==
    \/ DDFlush
    \/ DDSpawn
    \/ DDLoopEnd
    \/ \E k \in 1..Len(parts) : DDPost(k)
    \/ \E k \in 1..Len(parts) : DDPostReturn(k)
    \/ DDReturn
    \/ CtxDone

SpecDD == DDInit /\ [][DDNext]_vars

(***************************************************************************)
(* The SignalFx sink.  Its tests are in the source tree, its               *)
(* implementation is not: the operations below follow the specification    *)
(* (sections 4.1 to 4.5) and the constructor calls, fakes and              *)
(* expectations of the tests.                                              *)
(***************************************************************************)
\* longest record list handed to one SignalFxSink.Flush call
MaxSfxMetrics == 2
\* largest maxPointsInBatch a SignalFx sink is constructed with (0: no batching)
MaxPerBatch == 1
\* longest sample list handed to one FlushOtherSamples call
MaxSamples == 2

Colon == ":"

\* Position of the first ':' of a tag, 0 when it has none.
FirstColon(tag) ==
    LET at == {j \in 1..Len(tag) : tag[j] = Colon}
    IN  IF at = {} THEN 0 ELSE CHOOSE j \in at : \A l \in at : j <= l

\* strings.SplitN(tag, ":", 2): the key, and the value ("" for a bare flag).
TagKey(tag) ==
    IF FirstColon(tag) = 0 THEN tag ELSE SubSeq(tag, 1, FirstColon(tag) - 1)

TagValue(tag) ==
    IF FirstColon(tag) = 0 THEN <<>> ELSE Drop(tag, FirstColon(tag))

\* Mappings from string to string.
EmptyMap == [k \in {} |-> <<>>]
Put(d, key, value) == [k \in DOMAIN d \cup {key} |-> IF k = key THEN value ELSE d[k]]
Delete(d, keys) == [k \in DOMAIN d \ keys |-> d[k]]

\* Sink.Name()
SfxName == "signalfx"
\* dogstatsd.EventIdentifierKey, the tag key that marks a sample as an event
EventIdentifierKey == <<"e", "v", "i", "d">>
\* the key of the sink-only route-hint tag ("veneursinkonly")
SinkOnlyKey == <<"v", "s", "o">>

KHost == <<"h", "o", "s", "t">>
KFoo == <<"f", "o", "o">>
KBoo == <<"b", "o", "o">>
KYay == <<"y", "a", "y">>
KNov == <<"n", "o", "v">>
VaryByKey == <<"t", "b">>
Available == <<"a", "v">>

\* Destination clients: the fallback and one per mapped route-tag value.
FallbackDest == <<"fallback", <<>>>>
RouteDest(v) == <<"route", v>>

\* The sinks under test:
\* NewSignalFxSink(hostnameTag, hostname, commonDimensions, log, client,
\*   varyBy, perTagClients, metricNamePrefixDrops, metricTagDrops, derived,
\*   maxPointsInBatch), with a FakeSink or a failSink as fallback client.
SfxSinks ==
    { [hostnameTag |-> KHost,
       hostname |-> <<"g">>,
       commonDimensions |-> Put(Put(EmptyMap, KYay, <<"p", "i", "e">>), KBoo, <<"s">>),
       varyBy |-> vb,
       clientsByTagValue |-> {Available},
       metricNamePrefixDrops |-> {<<"f", ".", "b">>},
       metricTagDrops |-> {<<"z", ":", "g">>},
       maxPointsInBatch |-> b,
       fallbackKind |-> kind,
       excludedTags |-> {}]
      : vb \in {<<>>, VaryByKey}, b \in 0..MaxPerBatch, kind \in {"fake", "fail"} }

SfxClients(sink) == {FallbackDest} \cup {RouteDest(v) : v \in sink.clientsByTagValue}

ClientKind(sink, dest) == IF dest = FallbackDest THEN sink.fallbackKind ELSE "fake"

\* The records a SignalFx flush is fed with.
SfxInputs ==
    { \* routed to the mapped client; its name holds, but does not start with, the drop prefix
      [Name |-> <<"x", "f", ".", "b">>, Timestamp |-> 1, Value |-> 100, Type |-> GaugeMetric,
       Tags |-> <<KFoo \o <<":", "b">>, VaryByKey \o <<":">> \o Available>>, Sinks |-> {}],
      \* name starts with the drop prefix
      [Name |-> <<"f", ".", "b", ".", "z">>, Timestamp |-> 1, Value |-> 10, Type |-> CounterMetric,
       Tags |-> <<KFoo \o <<":", "b">>>>, Sinks |-> {}],
      \* carries the literal drop tag
      [Name |-> <<"c">>, Timestamp |-> 1, Value |-> 10, Type |-> CounterMetric,
       Tags |-> <<<<"z", ":", "g">>, KNov>>, Sinks |-> {}],
      \* unmapped route value, a duplicate key, a host tag, pinned to this sink
      [Name |-> <<"d">>, Timestamp |-> 2, Value |-> 99, Type |-> GaugeMetric,
       Tags |-> <<VaryByKey \o <<":", "n">>, KFoo \o <<":", "b">>, KFoo \o <<":", "c", ":", "d">>,
                  KHost \o <<":", "h", "2">>, SinkOnlyKey \o <<":", "s">>>>,
       Sinks |-> {SfxName}],
      \* pinned to another sink
      [Name |-> <<"e">>, Timestamp |-> 2, Value |-> 5, Type |-> GaugeMetric,
       Tags |-> <<SinkOnlyKey \o <<":", "o">>>>, Sinks |-> {"anyone_else"}],
      \* a status record; a tag that only starts with the literal drop tag
      [Name |-> <<"s">>, Timestamp |-> 3, Value |-> 3, Type |-> StatusMetric,
       Tags |-> <<KNov, <<"z", ":", "g", "x">>, SinkOnlyKey \o <<":", "s">>>>, Sinks |-> {}],
      \* a metric type the formatter does not know
      [Name |-> <<"u">>, Timestamp |-> 3, Value |-> 1, Type |-> "unknown",
       Tags |-> <<KNov>>, Sinks |-> {}] }

\* ssf.SSFSample, for FlushOtherSamples: an event, a service check, and an
\* event that also has a status.
SfxSamples ==
    { [Name |-> <<"e", "v">>,
       Tags |-> Put(Put(Put(EmptyMap, EventIdentifierKey, <<>>), KFoo, <<"b">>), KNov, <<>>),
       Status |-> "OK"],
      [Name |-> <<"s", "c">>,
       Tags |-> Put(Put(EmptyMap, KFoo, <<"b">>), KBoo, <<"g">>),
       Status |-> "CRITICAL"],
      [Name |-> <<"e", "c">>,
       Tags |-> Put(Put(EmptyMap, EventIdentifierKey, <<>>), SinkOnlyKey, <<"s">>),
       Status |-> "CRITICAL"] }

\* The sets SetExcludedTags is called with.
ExcludeChoices == { {}, {KFoo, KBoo, KHost}, {KNov, VaryByKey} }

(***************************************************************************)
(* RouteSelector (4.3), DropRuleSet (4.2), TagPipeline (4.1),              *)
(* VendorFormatter (4.4)                                                   *)
(***************************************************************************)
\* IsAcceptableMetric ignoring the route hints.
IsAcceptableMetric_Any(m) == TRUE

\* Route hints: a record pinned to other sinks is not this sink's.
IsAcceptableMetric(m) == m.Sinks = {} \/ SfxName \in m.Sinks

\* shouldDrop matching the literal drop tags as prefixes of the tags.
ShouldDrop_TagPrefix(sink, m) ==
    \/ \E pre \in sink.metricNamePrefixDrops : HasPrefix(m.Name, pre)
    \/ \E j \in 1..Len(m.Tags) : \E t \in sink.metricTagDrops : HasPrefix(m.Tags[j], t)

\* shouldDrop(record)
ShouldDrop(sink, m) ==
    \/ \E pre \in sink.metricNamePrefixDrops : HasPrefix(m.Name, pre)
    \/ \E j \in 1..Len(m.Tags) : m.Tags[j] \in sink.metricTagDrops

\* select that does not look the route-tag value up in the mapping.
SelectDest_Unchecked(sink, m) ==
    LET at == {j \in 1..Len(m.Tags) : TagKey(m.Tags[j]) = sink.varyBy}
    IN  IF sink.varyBy = <<>> \/ at = {}
        THEN FallbackDest
        ELSE RouteDest(Available)

\* select(record): the client of the record's route-tag value, or the fallback.
SelectDest(sink, m) ==
    LET at == {j \in 1..Len(m.Tags) : TagKey(m.Tags[j]) = sink.varyBy}
    IN  IF sink.varyBy = <<>> \/ at = {}
        THEN FallbackDest
        ELSE LET first == CHOOSE j \in at : \A l \in at : j <= l
                 v == TagValue(m.Tags[first])
             IN  IF v \in sink.clientsByTagValue THEN RouteDest(v) ELSE FallbackDest

\* Step 3 of transform: each raw tag, in order, split and written.
RECURSIVE PutTags(_, _)
PutTags(dims, tags) ==
    IF tags = <<>> THEN dims
    ELSE PutTags(Put(dims, TagKey(Head(tags)), TagValue(Head(tags))), Tail(tags))

\* Steps 1, 2: the common dimensions, then the hostname dimension.
SeedDims(sink) == Put(sink.commonDimensions, sink.hostnameTag, sink.hostname)

\* The last steps of transform without the exclusion.
Finish_NoExclusion(sink, dims) == Delete(dims, {EventIdentifierKey, SinkOnlyKey})

\* Steps 5 to 7: the reserved keys and the excluded keys are removed.
Finish(sink, dims) ==
    Delete(Delete(dims, {EventIdentifierKey, SinkOnlyKey}), sink.excludedTags)

\* transform, for a metric record's tag list
MetricDims(sink, tags) == Finish(sink, PutTags(SeedDims(sink), tags))

\* transform, for a sample's tag mapping
SampleDims(sink, tags) ==
    Finish(sink, [k \in DOMAIN SeedDims(sink) \cup DOMAIN tags |->
                     IF k \in DOMAIN tags THEN tags[k] ELSE SeedDims(sink)[k]])

\* format(record): whether the type is recognised, and the wire type.
Recognised(m) == m.Type \in {GaugeMetric, CounterMetric, StatusMetric}

WireType(m) == IF m.Type = CounterMetric THEN "counter" ELSE "gauge"

\* The datapoint of record src of the flush.
Datapoint(sink, m, src) ==
    [src |-> src,
     Metric |-> m.Name,
     MetricType |-> WireType(m),
     Value |-> m.Value,
     Timestamp |-> m.Timestamp,
     Dimensions |-> MetricDims(sink, m.Tags)]

\* Whether record m of a flush yields a datapoint at all.
Kept(sink, m) == IsAcceptableMetric(m) /\ ~ShouldDrop(sink, m) /\ Recognised(m)

\* The datapoints of one destination, in input order.
RECURSIVE PointsFor(_, _, _, _)
PointsFor(sink, ms, dest, k) ==
    IF k > Len(ms) THEN <<>>
    ELSE (IF Kept(sink, ms[k]) /\ SelectDest(sink, ms[k]) = dest
          THEN <<Datapoint(sink, ms[k], k)>>
          ELSE <<>>) \o PointsFor(sink, ms, dest, k + 1)

(***************************************************************************)
(* BatchDispatcher (4.5), fixed-count batching                             *)
(***************************************************************************)
\* The number of chunks of n points: none for n = 0, one when batching is off.
NumChunks(n, maxPerBatch) ==
    IF n = 0 THEN 0
    ELSE IF maxPerBatch <= 0 THEN 1
    ELSE ((n - 1) \div maxPerBatch) + 1

\* Chunk c (from 1) of the points.
FixedChunk(points, maxPerBatch, c) ==
    IF maxPerBatch <= 0 THEN points
    ELSE SubSeq(points, (c - 1) * maxPerBatch + 1,
                IF c * maxPerBatch < Len(points) THEN c * maxPerBatch ELSE Len(points))

\* Every chunk of every destination, each to be submitted on its own.
Batches(sink, ms) ==
    UNION { LET points == PointsFor(sink, ms, dest, 1)
            IN  { [dest |-> dest, seq |-> c,
                   points |-> FixedChunk(points, sink.maxPointsInBatch, c),
                   st |-> "started"]
                  : c \in 1..NumChunks(Len(points), sink.maxPointsInBatch) }
            : dest \in SfxClients(sink) }

(***************************************************************************)
(* SignalFxSink: SetExcludedTags, Flush, FlushOtherSamples                 *)
(***************************************************************************)
\* A FakeSink that has received nothing.
NewFakeSink == [points |-> <<>>, pointAdds |-> 0, events |-> <<>>, eventAdds |-> 0]

SfxInit ==
    /\ sfx \in SfxSinks
    /\ ctx \in {"live", "done"}
    /\ pc = "idle"
    /\ interMetrics = <<>>
    /\ samples = <<>>
    /\ batches = {}
    /\ received = [dest \in SfxClients(sfx) |-> NewFakeSink]
    /\ derived = <<>>
    /\ ret = "none"
    /\ dd = <<>>
    /\ metrics = <<>>
    /\ workers = 0
    /\ chunkSize = 0
    /\ i = 0
    /\ parts = <<>>
    /\ wg = 0
    /\ posts = <<>>

\* SetExcludedTags(excludes): replaces the set, between flushes.
SetExcludedTags(excludes) ==
    /\ pc = "idle"
    /\ sfx.excludedTags # excludes
    /\ sfx' = [sfx EXCEPT !.excludedTags = excludes]
    /\ UNCHANGED <<ctx, pc, interMetrics, samples, batches, received, derived, ret>>
    /\ UNCHANGED ddVars

\* Flush up to the fan-out: drop, route, transform and format every record,
\* group per destination, cut into chunks, start one submission per chunk.
SfxFlush ==
    /\ pc = "idle"
    /\ \E ms \in SeqsUpTo(SfxInputs, MaxSfxMetrics) :
         /\ interMetrics' = ms
         /\ batches' = Batches(sfx, ms)
    /\ pc' = "submit"
    /\ UNCHANGED <<ctx, sfx, samples, received, derived, ret>>
    /\ UNCHANGED ddVars

\* One chunk's submission: the destination's AddDatapoints is called once
\* with the chunk; a FakeSink records it, a failSink returns an error.
SfxSubmit(b) ==
    /\ pc \in {"submit", "done"}
    /\ b.st = "started"
    /\ IF ClientKind(sfx, b.dest) = "fake"
       THEN /\ received' = [received EXCEPT
                               ![b.dest].points = @ \o b.points,
                               ![b.dest].pointAdds = @ + 1]
            /\ batches' = (batches \ {b}) \cup {[b EXCEPT !.st = "ok"]}
       ELSE /\ batches' = (batches \ {b}) \cup {[b EXCEPT !.st = "failed"]}
            /\ UNCHANGED received
    /\ UNCHANGED <<ctx, pc, sfx, interMetrics, samples, derived, ret>>
    /\ UNCHANGED ddVars

\* The join: Flush returns once every submission has reported, with an
\* error if one failed; or at once, with an error, when the context is done.
SfxReturn ==
    /\ pc = "submit"
    /\ \/ /\ ctx = "done"
          /\ ret' = "error"
       \/ /\ ctx = "live"
          /\ \A b \in batches : b.st # "started"
          /\ ret' = IF \E b \in batches : b.st = "failed" THEN "error" ELSE "nil"
    /\ pc' = "done"
    /\ UNCHANGED <<ctx, sfx, interMetrics, samples, batches, received, derived>>
    /\ UNCHANGED ddVars

\* A sample that is not an event although taken for one.
IsEvent_Any(sample) == TRUE

\* A sample is an event when its tags hold the event-identifier key.
IsEvent(sample) == EventIdentifierKey \in DOMAIN sample.Tags

\* The event of a sample that carries the event-identifier tag.
Event(sink, sample) ==
    [EventType |-> sample.Name, Dimensions |-> SampleDims(sink, sample.Tags)]

\* FlushOtherSamples over samples k..: a sample with the event-identifier
\* tag is reported with one AddEvents call to the fallback client; any other
\* sample (a service check) is skipped.
RECURSIVE ReportEvents(_, _, _, _)
ReportEvents(sink, client, ss, k) ==
    IF k > Len(ss) THEN client
    ELSE IF IsEvent(ss[k])
    THEN ReportEvents(sink,
                      IF ClientKind(sink, FallbackDest) = "fake"
                      THEN [client EXCEPT !.events = Append(@, Event(sink, ss[k])),
                                          !.eventAdds = @ + 1]
                      ELSE client,
                      ss, k + 1)
    ELSE ReportEvents(sink, client, ss, k + 1)

SfxFlushOtherSamples ==
    /\ pc = "idle"
    /\ \E ss \in SeqsUpTo(SfxSamples, MaxSamples) :
         /\ samples' = ss
         /\ received' = [received EXCEPT
                            ![FallbackDest] = ReportEvents(sfx, @, ss, 1)]
    /\ pc' = "flushed"
    /\ UNCHANGED <<ctx, sfx, interMetrics, batches, derived, ret>>
    /\ UNCHANGED ddVars

\* The caller's context is canceled or passes its deadline during the flush.
SfxCtxDone ==
    /\ ctx = "live"
    /\ pc = "submit"
    /\ ctx' = "done"
    /\ UNCHANGED <<pc, sfx, interMetrics, samples, batches, received, derived, ret>>
    /\ UNCHANGED ddVars

SfxNext ==
    \/ \E excludes \in ExcludeChoices : SetExcludedTags(excludes)
    \/ SfxFlush
    \/ \E b \in batches : SfxSubmit(b)
    \/ SfxReturn
    \/ SfxFlushOtherSamples
    \/ SfxCtxDone

SpecSfx == SfxInit /\ [][SfxNext]_vars

(***************************************************************************)
(* Properties of the SignalFx flush.                                       *)
(***************************************************************************)
\* The positions in interMetrics of the datapoints of a sequence of points.
Sources(points) == {points[j].src : j \in 1..Len(points)}

\* Records of the flush that were handed to the submission of a chunk.
Submitted == UNION {Sources(b.points) : b \in batches}

\* Records of the flush that a destination client received.
Delivered == UNION {Sources(received[dest].points) : dest \in DOMAIN received}

\* The record's name starts with a configured prefix, or one of its tags is
\* a configured literal tag.
MatchesDropRule(m) ==
    \/ \E pre \in sfx.metricNamePrefixDrops :
         /\ Len(pre) <= Len(m.Name)
         /\ \A j \in 1..Len(pre) : m.Name[j] = pre[j]
    \/ \E t \in sfx.metricTagDrops : \E j \in 1..Len(m.Tags) : m.Tags[j] = t

\* The record is pinned to other sinks only.
PinnedElsewhere(m) == m.Sinks # {} /\ SfxName \notin m.Sinks

KnownType(m) == m.Type \in {GaugeMetric, CounterMetric, StatusMetric}

InFlush == pc \in {"submit", "done"}

\* C1: a record matching a drop rule (name prefix, or literal tag) is never
\* handed to any destination client, routed or fallback; a record matching
\* no drop rule is not removed by the drop step.
C1_DroppedNeverDelivered ==
    InFlush =>
      \A k \in 1..Len(interMetrics) :
        LET m == interMetrics[k]
        IN  /\ MatchesDropRule(m) => (k \notin Submitted /\ k \notin Delivered)
            /\ (~MatchesDropRule(m) /\ ~PinnedElsewhere(m) /\ KnownType(m))
                  => k \in Submitted

\* A flush has returned in which one record was dropped by the tag rule and
\* another, whose tag only starts with the drop tag, was delivered.
C1_Witness ==
    /\ pc = "done"
    /\ \E k \in 1..Len(interMetrics) :
         /\ \E j \in 1..Len(interMetrics[k].Tags) :
              interMetrics[k].Tags[j] \in sfx.metricTagDrops
         /\ k \notin Delivered
    /\ \E k \in Delivered : interMetrics[k].Name = <<"s">>

\* The destination the claim gives record m: the client mapped to V when the
\* record carries varyBy:V and V is mapped, the fallback otherwise.
RouteTag(v) == sfx.varyBy \o <<":">> \o v

ClaimedDest(m) ==
    IF /\ sfx.varyBy # <<>>
       /\ \E v \in sfx.clientsByTagValue : \E j \in 1..Len(m.Tags) : m.Tags[j] = RouteTag(v)
    THEN RouteDest(CHOOSE v \in sfx.clientsByTagValue :
                      \E j \in 1..Len(m.Tags) : m.Tags[j] = RouteTag(v))
    ELSE FallbackDest

\* C2: every record that is not dropped is submitted to exactly one
\* destination client: the one mapped to its route-tag value, else the
\* fallback; with no route tag key configured, always the fallback.
C2_RoutedToOneDestination ==
    InFlush =>
      /\ \A k \in 1..Len(interMetrics) :
           LET m == interMetrics[k]
           IN  (~MatchesDropRule(m) /\ ~PinnedElsewhere(m) /\ KnownType(m))
                  => Cardinality({b \in batches : k \in Sources(b.points)}) = 1
      /\ \A b \in batches : \A k \in Sources(b.points) :
           /\ b.dest = ClaimedDest(interMetrics[k])
           /\ b.st = "ok" => k \in Sources(received[b.dest].points)
      /\ \A dest \in DOMAIN received :
           /\ \A k \in Sources(received[dest].points) :
                dest = ClaimedDest(interMetrics[k])
           /\ \A p, q \in 1..Len(received[dest].points) :
                received[dest].points[p].src = received[dest].points[q].src => p = q
      /\ sfx.varyBy = <<>> => \A b \in batches : b.dest = FallbackDest

\* A flush has returned that delivered one record to the mapped client and
\* one, with an unmapped route value, to the fallback.
C2_Witness ==
    /\ pc = "done"
    /\ sfx.varyBy = VaryByKey
    /\ Len(received[RouteDest(Available)].points) = 1
    /\ \E j \in 1..Len(received[FallbackDest].points) :
         received[FallbackDest].points[j].Metric = <<"d">>

HasKey(t, k) ==
    /\ \A j \in 1..Len(k) : k[j] # ":"
    /\ (t = k \/ HasPrefix(t, k \o <<":">>))

ValueUnder(t, k) == IF t = k THEN <<>> ELSE Drop(t, Len(k) + 1)

KeysOf(tags) ==
    {k \in UNION {{SubSeq(tags[j], 1, n) : n \in 0..Len(tags[j])} : j \in 1..Len(tags)} :
        \E j \in 1..Len(tags) : HasKey(tags[j], k)}

\* The value the last tag with key k gives it.
LastValue(tags, k) ==
    LET at == {j \in 1..Len(tags) : HasKey(tags[j], k)}
        last == CHOOSE j \in at : \A l \in at : l <= j
    IN  ValueUnder(tags[last], k)

\* The claimed dimensions, given the keys the record's tags set and the
\* value each of them has.
ClaimedDims(dims, tagKeys, value(_)) ==
    /\ DOMAIN dims =
         ((DOMAIN sfx.commonDimensions \cup {sfx.hostnameTag} \cup tagKeys)
            \ {EventIdentifierKey, SinkOnlyKey}) \ sfx.excludedTags
    /\ \A k \in DOMAIN dims :
         dims[k] = IF k \in tagKeys THEN value(k)
                   ELSE IF k = sfx.hostnameTag THEN sfx.hostname
                   ELSE sfx.commonDimensions[k]

PointDimsAsClaimed(point) ==
    LET tags == interMetrics[point.src].Tags
        value(k) == LastValue(tags, k)
    IN  ClaimedDims(point.Dimensions, KeysOf(tags), value)

RECURSIVE EventNames(_)
EventNames(ss) ==
    IF ss = <<>> THEN <<>>
    ELSE (IF EventIdentifierKey \in DOMAIN Head(ss).Tags THEN <<Head(ss).Name>> ELSE <<>>)
         \o EventNames(Tail(ss))

\* C10: FlushOtherSamples forwards a sample as an event iff it carries the
\* event-identifier tag; the event's type is the sample's name and it has no
\* event-identifier dimension; no sample reaches the metric submission or
\* the derived-sample processor.
C10_OnlyEventsForwarded ==
    pc = "flushed" =>
      /\ sfx.fallbackKind = "fake" =>
           /\ [j \in 1..Len(received[FallbackDest].events) |->
                 received[FallbackDest].events[j].EventType] = EventNames(samples)
           /\ received[FallbackDest].eventAdds = Len(EventNames(samples))
      /\ \A dest \in DOMAIN received :
           /\ received[dest].points = <<>>
           /\ received[dest].pointAdds = 0
           /\ dest # FallbackDest => received[dest].events = <<>>
           /\ \A j \in 1..Len(received[dest].events) :
                EventIdentifierKey \notin DOMAIN received[dest].events[j].Dimensions
      /\ derived = <<>>

\* FlushOtherSamples was given a service check and an event and forwarded
\* the event alone.
C10_Witness ==
    /\ pc = "flushed"
    /\ Len(samples) = 2
    /\ samples[1].Status = "CRITICAL"
    /\ EventIdentifierKey \notin DOMAIN samples[1].Tags
    /\ Len(received[FallbackDest].events) = 1
    /\ received[FallbackDest].events[1].EventType = samples[2].Name

(***************************************************************************)
(* Properties of the Datadog flush.                                        *)
(***************************************************************************)
\* C4: if any chunk submission fails, Flush returns a non-nil error, after
\* every chunk has been attempted; if every chunk succeeds it returns nil.
C4_FailureReported ==
    pc = "done" =>
      /\ Len(parts) = workers
      /\ \A k \in 1..Len(parts) : parts[k].st \in {"ok", "failed"}
      /\ (\E k \in 1..Len(parts) : parts[k].st = "failed") => ret = "error"
      /\ (\A k \in 1..Len(parts) : parts[k].st = "ok") => ret = "nil"

\* C5: with the context done before or during dispatch, Flush returns an
\* error, and can return without waiting for the submissions that have not
\* reported.
C5_CancelReturnsError ==
    /\ (pc = "done" /\ ctx = "done") => ret = "error"
    /\ (pc = "wait" /\ ctx = "done") => ENABLED DDReturn

\* C6: with a batch size of 1, every submission carries exactly one record,
\* no record is carried twice, and when Flush returns there have been
\* exactly N submissions, every one of them completed.
C6_OneCallPerRecord ==
    (pc # "idle" /\ dd.flushMaxPerBody = 1) =>
      /\ \A p \in 1..Len(posts) :
           /\ Len(posts[p].series) = 1
           /\ posts[p].lo \in 0..(Len(metrics) - 1)
           /\ posts[p].series[1] = metrics[posts[p].lo + 1]
      /\ \A p, q \in 1..Len(posts) : posts[p].lo = posts[q].lo => p = q
      /\ pc = "done" =>
           /\ Len(posts) = Len(interMetrics)
           /\ Len(parts) = Len(interMetrics)
           /\ \A k \in 1..Len(parts) : parts[k].st \in {"ok", "failed"}

\* A flush of three records with flushMaxPerBody = 1 has returned, the
\* context still live.
C6_Witness ==
    /\ pc = "done"
    /\ ctx = "live"
    /\ dd.flushMaxPerBody = 1
    /\ Len(interMetrics) = 3
    /\ Len(posts) = 3

\* C7: a flush of zero records makes no submission and returns no error,
\* for every batch size >= 1.
C7_EmptyFlushIsNoOp ==
    (pc # "idle" /\ Len(interMetrics) = 0) =>
      /\ pc # "panic"
      /\ posts = <<>>
      /\ pc = "done" => ret = "nil"

\* The records of the flush whose type the formatter recognises.
Accepted == {k \in 1..Len(interMetrics) : interMetrics[k].Type \in {CounterMetric, GaugeMetric}}

\* C8: a record of an unrecognised type yields no wire record, not even a
\* zero-valued one: every posted wire record comes from an accepted record,
\* and a returned flush has posted as many wire records as it accepted,
\* without an error.
C8_UnknownTypeRejected ==
    pc # "idle" =>
      /\ \A p \in 1..Len(posts) : \A j \in 1..Len(posts[p].series) :
           /\ (posts[p].lo + j) \in Accepted
           /\ posts[p].series[j] # ZeroDDMetric
      /\ pc = "done" =>
           /\ Cardinality(Accepted)
                = Cardinality(UNION {{<<p, j>> : j \in 1..Len(posts[p].series)}
                                       : p \in 1..Len(posts)})
           /\ ret = "nil"

\* C11: a record of type Status is formatted as a gauge whose value is the
\* numeric encoding of the status, under the record's name and timestamp,
\* and is posted like any gauge.
C11_StatusIsGauge ==
    pc # "idle" =>
      \A k \in 1..Len(interMetrics) :
        interMetrics[k].Type = StatusMetric =>
          /\ metrics[k].MetricType = "gauge"
          /\ metrics[k].Name = interMetrics[k].Name
          /\ metrics[k].Value = <<interMetrics[k].Timestamp, Rat(interMetrics[k].Value, 1)>>

\* The wire record at slot k carries the name and timestamp of record k,
\* and the type and value the rate-based formatter is claimed to give it.
RateFormatted(w, m) ==
    /\ w.Name = m.Name
    /\ w.Value[1] = m.Timestamp
    /\ w.Value[2].d > 0
    /\ m.Type = CounterMetric =>
         /\ w.MetricType = "rate"
         /\ w.Value[2].n * dd.interval = m.Value * w.Value[2].d
    /\ m.Type = GaugeMetric =>
         /\ w.MetricType = "gauge"
         /\ w.Value[2].n = m.Value * w.Value[2].d

\* C12: every Counter record yields a wire record of type "rate" whose value
\* is inputValue / interval, every Gauge record one of type "gauge" with the
\* value unchanged; name and timestamp are carried over; this is what is
\* posted.
C12_RateConversion ==
    pc # "idle" =>
      /\ \A k \in 1..Len(interMetrics) :
           interMetrics[k].Type \in {CounterMetric, GaugeMetric}
              => RateFormatted(metrics[k], interMetrics[k])
      /\ \A p \in 1..Len(posts) : \A j \in 1..Len(posts[p].series) :
           interMetrics[posts[p].lo + j].Type \in {CounterMetric, GaugeMetric}
              => RateFormatted(posts[p].series[j], interMetrics[posts[p].lo + j])

\* A flush has returned that posted a counter, as the rate 10 / 10 = 1, and
\* a gauge.
C12_Witness ==
    /\ pc = "done"
    /\ \E p \in 1..Len(posts) : \E j \in 1..Len(posts[p].series) :
         /\ interMetrics[posts[p].lo + j].Type = CounterMetric
         /\ posts[p].series[j].MetricType = "rate"
         /\ posts[p].series[j].Value[2] = [n |-> 1, d |-> 1]
    /\ \E p \in 1..Len(posts) : \E j \in 1..Len(posts[p].series) :
         interMetrics[posts[p].lo + j].Type = GaugeMetric

\* c is the quotient a / b rounded up.
IsCeil(c, a, b) == b >= 1 /\ c * b >= a /\ (c - 1) * b < a

\* The chunks Flush cuts out of n records 1..n with flushMaxPerBody = m are
\* in range, non-empty, at most m long, chunkSize long unless last, and
\* are the consecutive runs of 1..n.
ChunkPlanOK(n, m) ==
    LET ms == [k \in 1..n |-> k]
        w == Workers(n, m)
        cs == ChunkSize(n, w)
    IN  /\ IsCeil(w, n, m)
        /\ IsCeil(cs, n, w)
        /\ \A k \in 0..(w - 1) :
             LET c == Chunk(ms, k, w, cs)
             IN  /\ SliceOK(ms, k, w, cs)
                 /\ Len(c) >= 1
                 /\ Len(c) <= m
                 /\ k < w - 1 => Len(c) = cs
                 /\ k = w - 1 => (Len(c) <= cs /\ k * cs + Len(c) = n)
                 /\ \A j \in 1..Len(c) : c[j] = k * cs + j

\* The chunk arithmetic is right for every n and flushMaxPerBody in bounds.
ChunkPlansOK ==
    \A n \in 1..MaxChunkRecords : \A m \in 1..MaxChunkBody : ChunkPlanOK(n, m)

\* C13: for n >= 1 records, workers = ceil(n / flushMaxPerBody) and
\* chunkSize = ceil(n / workers); the chunks are contiguous, non-empty, in
\* input order, disjoint and cover the n records; each has at most
\* flushMaxPerBody records and only the last may be shorter than chunkSize;
\* no slice is out of range; one flushPart is started per chunk.
C13_WorkerBatching ==
    /\ ChunkPlansOK
    /\ (pc # "idle" /\ Len(metrics) >= 1) =>
         LET n == Len(metrics)
         IN  /\ pc # "panic"
             /\ IsCeil(workers, n, dd.flushMaxPerBody)
             /\ IsCeil(chunkSize, n, workers)
             /\ Len(parts) = i
             /\ i <= workers
             /\ pc \in {"wait", "done"} => i = workers
             /\ \A k \in 1..Len(parts) :
                  LET c == parts[k].chunk
                  IN  /\ parts[k].lo = IF k = 1 THEN 0
                                       ELSE parts[k - 1].lo + Len(parts[k - 1].chunk)
                      /\ Len(c) >= 1
                      /\ Len(c) <= dd.flushMaxPerBody
                      /\ Len(c) <= chunkSize
                      /\ k < workers => Len(c) = chunkSize
                      /\ k = workers => parts[k].lo + Len(c) = n
                      /\ parts[k].lo + Len(c) <= n
                      /\ \A j \in 1..Len(c) : c[j] = metrics[parts[k].lo + j]
             /\ Len(posts) <= Len(parts)
             /\ \A p \in 1..Len(posts) :
                  LET k == GoDiv(posts[p].lo, chunkSize) + 1
                  IN  /\ k <= Len(parts)
                      /\ parts[k].st # "started"
                      /\ posts[p].lo = parts[k].lo
                      /\ posts[p].series = parts[k].chunk
             /\ \A p, q \in 1..Len(posts) : posts[p].lo = posts[q].lo => p = q
             /\ pc = "done" => Len(posts) = workers

\* Three records with flushMaxPerBody = 2 were flushed as a chunk of two
\* and a last chunk of one, each posted once.
C13_Witness ==
    /\ pc = "done"
    /\ Len(metrics) = 3
    /\ dd.flushMaxPerBody = 2
    /\ workers = 2
    /\ chunkSize = 2
    /\ Len(parts) = 2
    /\ Len(parts[1].chunk) = 2
    /\ Len(parts[2].chunk) = 1
    /\ Len(posts) = 2

\* What is behind the prefix of the last tag of tags that has it, empty
\* when no tag has it.
RECURSIVE LastMagic(_, _, _)
LastMagic(tags, prefix, found) ==
    IF tags = <<>> THEN found
    ELSE LastMagic(Tail(tags), prefix,
                   IF HasPrefix(Head(tags), prefix)
                   THEN Drop(Head(tags), Len(prefix))
                   ELSE found)

IsMagic(tag) == HasPrefix(tag, HostPrefix) \/ HasPrefix(tag, DevicePrefix)

\* The tags of a record that are not magic, in the record's order.
RECURSIVE Remaining(_)
Remaining(tags) ==
    IF tags = <<>> THEN <<>>
    ELSE IF IsMagic(Head(tags)) THEN Remaining(Tail(tags))
    ELSE <<Head(tags)>> \o Remaining(Tail(tags))

\* The hostname, device name and tags record m is claimed to get under
\* the sink.
Claimed(sink, m) ==
    LET host == LastMagic(m.Tags, HostPrefix, <<>>)
    IN  [Hostname |-> IF host # <<>> THEN host ELSE sink.hostname,
         DeviceName |-> LastMagic(m.Tags, DevicePrefix, <<>>),
         Tags |-> sink.tags \o Remaining(m.Tags)]

\* Claimed, for the sinks and records of the model.
ClaimedOf == [sink \in DDSinks |-> [m \in DDInputs |-> Claimed(sink, m)]]

\* Wire record w is what record m is claimed to give: c.
WireAsClaimed(m, w, c) ==
    m.Type \in {CounterMetric, GaugeMetric} =>
      /\ w.Hostname = c.Hostname
      /\ w.DeviceName = c.DeviceName
      /\ w.Tags = c.Tags
      /\ \A j \in 1..Len(w.Tags) : ~IsMagic(w.Tags[j])

\* Formatting any record list under any sink gives each record the wire
\* record claimed, leaves the sink as it was, and gives the same output
\* when it is done again.
FormattingIsolated ==
    \A sink \in DDSinks : \A ms \in SeqsUpTo(DDInputs, MaxMetrics) :
      LET out == finalizeMetrics(sink, ms)
      IN  /\ \A after \in {SinkAfter(sink, ms)} :
               /\ after = sink
               /\ finalizeMetrics(after, ms) = out
          /\ \A k \in 1..Len(ms) : WireAsClaimed(ms[k], out[k], Claimed(sink, ms[k]))

\* C14: for every formatted record a tag host:X sets the wire hostname to
\* X and a tag device:Y the device name to Y, and neither is in the wire
\* tags; without a non-empty host the hostname is the sink's; the wire
\* tags are the sink's common tags followed by the record's remaining tags
\* in order, so no tag of another record is among them; the sink (its tags
\* and their backing array) and the input records are left as they were,
\* and formatting the same input again gives the same output.
C14_MagicTagsAndIsolation ==
    /\ FormattingIsolated
    /\ pc # "idle" =>
         /\ dd \in DDSinks
         /\ \A k \in 1..Len(interMetrics) :
              /\ interMetrics[k] \in DDInputs
              /\ WireAsClaimed(interMetrics[k], metrics[k], ClaimedOf[dd][interMetrics[k]])

\* A flush has returned that formatted and posted, in this order, the
\* counter (tags env:p and an empty host:) and the gauge (tags host:h2,
\* nov, device:sda), each with its own tags behind the common one.
C14_Witness ==
    /\ pc = "done"
    /\ Len(interMetrics) >= 2
    /\ interMetrics[1].Type = CounterMetric
    /\ interMetrics[2].Type = GaugeMetric
    /\ metrics[1].Hostname = dd.hostname
    /\ metrics[1].Tags = dd.tags \o <<TagEnvProd>>
    /\ metrics[2].Hostname = <<"h", "2">>
    /\ metrics[2].DeviceName = <<"s", "d", "a">>
    /\ metrics[2].Tags = dd.tags \o <<TagFlag>>
    /\ \E p \in 1..Len(posts) : \E j \in 1..Len(posts[p].series) :
         posts[p].series[j] = metrics[2]

=============================================================================
